---- MODULE Spec2Model ----
(***************************************************************************)
(* State-machine model of the quiz trainer: the useQuiz hook (reducer,     *)
(* loader, answer / navigation / reset handlers), the useStorage adapter   *)
(* it persists through, and the Quiz / Question views that call into it.   *)
(* One action is one event handler run to completion, followed by the      *)
(* re-render React performs before the next event (so every handler sees   *)
(* the current state, while a pending load keeps the closure of the render *)
(* that started it).                                                       *)
(***************************************************************************)
EXTENDS Integers, Sequences, FiniteSets, TLC

VARIABLES
  state,               \* the reducer state of useQuiz
  hasLoadedRef,        \* hasLoadedRef.current
  lsItem,              \* window.localStorage under the key 'quizProgress'
  lsMode,              \* how window.localStorage behaves: "ok", "quota", "throws"
  isStorageAvailable,  \* useStorage: isStorageAvailable
  fallbackStorage,     \* useStorage: fallbackStorage under the key 'quizProgress'
  inflight,            \* load attempts whose fetch has not resolved yet
  queue,               \* actions dispatched by a handler that React has not applied yet
  otherKey,            \* localStorage (ls) and the fallback Map (fb) under a second key
  selectedOptions      \* Question: selectedOptions, kept while a Question is on display

vars == <<state, hasLoadedRef, lsItem, lsMode, isStorageAvailable, fallbackStorage, inflight,
          queue, otherKey, selectedOptions>>

-----------------------------------------------------------------------------
(* Bounds                                                                  *)

MaxScore == 3
MaxRetry == 3
MaxInFlight == 2
MaxSel == 2

-----------------------------------------------------------------------------
(* Answers: a bare option index or an array of option indices              *)

NoAnswer == [def |-> FALSE, arr |-> FALSE, v |-> <<>>]
Num(i) == [def |-> TRUE, arr |-> FALSE, v |-> <<i>>]
Arr(s) == [def |-> TRUE, arr |-> TRUE, v |-> s]

-----------------------------------------------------------------------------
(* Questions and the documents the network can serve                       *)

Question(id, category, type, options, correct) ==
  [id |-> id, category |-> category, type |-> type, text |-> "text",
   options |-> options, correct |-> correct]

Q1 == Question(1, "Speed limits", "single", <<"a", "b">>, <<"a">>)
Q2 == Question(2, "Speed limits", "multiple", <<"a", "b", "c">>, <<"a", "b">>)
Q3 == Question(3, "Traffic signs", "single", <<"a", "b">>, <<"b">>)

BankA == <<Q1, Q2, Q3>>
BankB == <<Q1>>
Banks == {BankA, BankB}

Ids == {1, 2, 3}
EmptyAnswers == [id \in Ids |-> NoAnswer]

\* messages of the errors thrown inside loadQuestions, as lower-cased words
MsgFailedToFetch == <<"failed", "to", "fetch">>
MsgStatus404 == <<"failed", "to", "load", "questions:", "404", "not", "found">>

Responses ==
  {[ok |-> TRUE, questions |-> b, message |-> <<>>] : b \in Banks}
    \cup {[ok |-> FALSE, questions |-> <<>>, message |-> m] :
            m \in {MsgFailedToFetch, MsgStatus404}}

-----------------------------------------------------------------------------
(* quizReducer                                                             *)

NoError == [kind |-> "null", detail |-> <<>>, attempt |-> 0]

InitialState ==
  [questions |-> <<>>, currentQuestionIndex |-> 0, answers |-> EmptyAnswers,
   score |-> 0, loading |-> TRUE, error |-> NoError, retryCount |-> 0]

SET_QUESTIONS(s, payload) ==
  [s EXCEPT !.questions = payload, !.loading = FALSE, !.error = NoError]

\* a variant that also dismisses the error and the loading flag
SET_CURRENT_QUESTION_Dismissing(s, payload) ==
  [s EXCEPT !.currentQuestionIndex = payload, !.loading = FALSE, !.error = NoError]

SET_CURRENT_QUESTION(s, payload) ==
  [s EXCEPT !.currentQuestionIndex = payload]

\* a variant that takes a point away for an incorrect answer
ANSWER_QUESTION_Penalty(s, questionId, answer, isCorrect) ==
  [s EXCEPT !.answers = [s.answers EXCEPT ![questionId] = answer],
            !.score = IF isCorrect THEN s.score + 1
                      ELSE IF s.score > 0 THEN s.score - 1 ELSE 0]

ANSWER_QUESTION(s, questionId, answer, isCorrect) ==
  [s EXCEPT !.answers = [s.answers EXCEPT ![questionId] = answer],
            !.score = IF isCorrect THEN s.score + 1 ELSE s.score]

RESTORE_ANSWERS(s, answers) ==
  [s EXCEPT !.answers = answers]

SET_LOADING(s, payload) ==
  [s EXCEPT !.loading = payload,
            !.error = IF s.loading /\ ~payload THEN NoError ELSE s.error]

\* a variant that stores the message and leaves the loading flag as it is
SET_ERROR_KeepLoading(s, payload) ==
  [s EXCEPT !.error = payload]

SET_ERROR(s, payload) ==
  [s EXCEPT !.error = payload, !.loading = FALSE]

SET_RETRY_COUNT(s, payload) ==
  [s EXCEPT !.retryCount = payload]

RESET_QUIZ(s) ==
  [s EXCEPT !.currentQuestionIndex = 0, !.answers = EmptyAnswers, !.score = 0,
            !.error = NoError, !.retryCount = 0]

-----------------------------------------------------------------------------
(* getErrorMessage                                                         *)

\* String.prototype.includes on the lower-cased message, word by word
Includes(msg, sub) ==
  \E k \in 0..(Len(msg) - Len(sub)) :
    \A j \in 1..Len(sub) : msg[k + j] = sub[j]

Attempt(retryCount) == IF retryCount > 0 THEN retryCount + 1 ELSE 0

getErrorMessage(message, retryCount) ==
  IF Includes(message, <<"failed", "to", "fetch">>) \/ Includes(message, <<"network">>)
    THEN [kind |-> "Network connection issue", detail |-> <<>>,
          attempt |-> Attempt(retryCount)]
  ELSE IF Includes(message, <<"404">>) \/ Includes(message, <<"not", "found">>)
    THEN [kind |-> "Questions file not found", detail |-> <<>>, attempt |-> 0]
  ELSE IF Includes(message, <<"invalid", "questions", "format">>)
    THEN [kind |-> "The questions file format is invalid", detail |-> <<>>,
          attempt |-> 0]
  ELSE IF Includes(message, <<"timeout">>)
    THEN [kind |-> "Request timed out", detail |-> <<>>, attempt |-> 0]
  ELSE [kind |-> "Unable to load quiz questions", detail |-> message,
        attempt |-> Attempt(retryCount)]

-----------------------------------------------------------------------------
(* useStorage                                                              *)

\* the progress record { currentQuestionIndex, answers, score }; full is
\* FALSE for the record { currentQuestionIndex } that navigation writes when
\* nothing was stored before
Progress(index, answers, score) ==
  [currentQuestionIndex |-> index, answers |-> answers, score |-> score,
   full |-> TRUE]
EmptyObject ==
  [currentQuestionIndex |-> 0, answers |-> EmptyAnswers, score |-> 0,
   full |-> FALSE]

\* JSON.stringify / JSON.parse of a progress record
JSONstringify(value) == [valid |-> TRUE, value |-> value]
JSONparse(text) == text.value

\* an entry of localStorage (a string) or of the fallback Map (the object)
NoText == [valid |-> FALSE, value |-> EmptyObject]
NoItem == [present |-> FALSE, text |-> NoText, value |-> EmptyObject]
TextItem(text) == [present |-> TRUE, text |-> text, value |-> EmptyObject]
ObjItem(value) == [present |-> TRUE, text |-> NoText, value |-> value]

\* nothing is stored under the second key, in localStorage or in the Map
NoOther == [ls |-> NoItem, fb |-> NoItem]

\* the storage as one render sees it: sa is the isStorageAvailable and fb
\* the fallbackStorage Map its getItem closed over
\* result: found (a value was returned instead of the default) and value
\* a variant that hands out whatever the parser makes of the stored text
getItemUnchecked(sa, fb, ls, mode) ==
  IF sa
    THEN IF mode = "throws" \/ ~ls.present
           THEN [found |-> FALSE, value |-> EmptyObject]
           ELSE [found |-> TRUE, value |-> JSONparse(ls.text)]
    ELSE IF fb.present
           THEN [found |-> TRUE, value |-> fb.value]
           ELSE [found |-> FALSE, value |-> EmptyObject]

getItem(sa, fb, ls, mode) ==
  IF sa
    THEN IF mode = "throws" \/ ~ls.present \/ ~ls.text.valid
           THEN [found |-> FALSE, value |-> EmptyObject]
           ELSE [found |-> TRUE, value |-> JSONparse(ls.text)]
    ELSE IF fb.present
           THEN [found |-> TRUE, value |-> fb.value]
           ELSE [found |-> FALSE, value |-> EmptyObject]

\* a pending load holds the Map object of the render that started it; the
\* updater prev => new Map(prev.set(key, value)) writes into that object
\* before copying it, so a holder of the current Map sees the written value
MapSet(attempts, value) ==
  [i \in 1..Len(attempts) |->
     IF attempts[i].fbCur
       THEN [attempts[i] EXCEPT !.fb = ObjItem(value), !.fbCur = FALSE]
       ELSE attempts[i]]

\* newMap.delete(key) works on the copy: holders of the old Map keep theirs
MapDelete(attempts) ==
  [i \in 1..Len(attempts) |-> [attempts[i] EXCEPT !.fbCur = FALSE]]

Store(ls, sa, fb, infl, ret) ==
  [ls |-> ls, sa |-> sa, fb |-> fb, infl |-> infl, ret |-> ret]

\* a variant that treats a quota failure like any other failed write
setItemNoFallback(st, mode, value) ==
  IF st.sa
    THEN IF mode = "ok"
           THEN Store(TextItem(JSONstringify(value)), st.sa, st.fb, st.infl, TRUE)
           ELSE Store(st.ls, st.sa, st.fb, st.infl, FALSE)
    ELSE Store(st.ls, st.sa, ObjItem(value), MapSet(st.infl, value), TRUE)

setItem(st, mode, value) ==
  IF st.sa
    THEN IF mode = "ok"
           THEN Store(TextItem(JSONstringify(value)), st.sa, st.fb, st.infl, TRUE)
         ELSE IF mode = "quota"
           THEN Store(st.ls, FALSE, ObjItem(value), MapSet(st.infl, value), TRUE)
         ELSE Store(st.ls, st.sa, st.fb, st.infl, FALSE)
    ELSE Store(st.ls, st.sa, ObjItem(value), MapSet(st.infl, value), TRUE)

removeItem(st, mode) ==
  IF st.sa
    THEN IF mode = "throws"
           THEN Store(st.ls, st.sa, st.fb, st.infl, FALSE)
           ELSE Store(NoItem, st.sa, st.fb, st.infl, TRUE)
    ELSE Store(st.ls, st.sa, NoItem, MapDelete(st.infl), TRUE)

\* the availability probe of the mount effect: a throwaway write and delete
Probe(mode) == mode = "ok"

CurrentStore == Store(lsItem, isStorageAvailable, fallbackStorage, inflight, TRUE)

-----------------------------------------------------------------------------
(* useQuiz: answer validation                                              *)

\* Array.prototype.indexOf: the first position, counted from 0, or -1
IndexOf(seq, x) ==
  IF \E k \in 1..Len(seq) : seq[k] = x
    THEN (CHOOSE k \in 1..Len(seq) :
            seq[k] = x /\ \A j \in 1..(k - 1) : seq[j] # x) - 1
    ELSE -1

\* Array.prototype.includes
ArrIncludes(seq, x) == \E k \in 1..Len(seq) : seq[k] = x

\* a variant that compares the text of the chosen option with the correct string
IsCorrectByText(question, answer) ==
  IF question.type = "multiple"
    THEN Len(question.correct) = Len(answer.v)
         /\ \A k \in 1..Len(question.correct) :
              ArrIncludes(answer.v, IndexOf(question.options, question.correct[k]))
    ELSE /\ ~answer.arr
         /\ answer.v[1] + 1 \in 1..Len(question.options)
         /\ question.options[answer.v[1] + 1] = question.correct[1]

IsCorrect(question, answer) ==
  IF question.type = "multiple"
    THEN Len(question.correct) = Len(answer.v)
         /\ \A k \in 1..Len(question.correct) :
              ArrIncludes(answer.v, IndexOf(question.options, question.correct[k]))
    ELSE ~answer.arr /\ answer.v[1] = IndexOf(question.options, question.correct[1])

HasCurrentQuestion(s) ==
  s.currentQuestionIndex >= 0 /\ s.currentQuestionIndex < Len(s.questions)

CurrentQuestion(s) == s.questions[s.currentQuestionIndex + 1]

-----------------------------------------------------------------------------
(* useQuiz: loadQuestions                                                  *)

\* a started load: rc is the state.retryCount, sa the isStorageAvailable and
\* fb the fallbackStorage Map of the render whose loadQuestions was called;
\* fbCur says that this Map is still the one held in the adapter's state.
\* A load that closed over sa = TRUE never reads its Map, so it is not kept.
\* timer says that the 15-second timer of the attempt is armed.
NewAttempt(rc, sa, fb) ==
  [rc |-> rc, sa |-> sa, fb |-> IF sa THEN NoItem ELSE fb, fbCur |-> ~sa,
   timer |-> TRUE]

RemoveAt(seq, i) ==
  [k \in 1..(Len(seq) - 1) |-> IF k < i THEN seq[k] ELSE seq[k + 1]]

\* the part of loadQuestions after "storage.getItem('quizProgress')"
RestoreProgress(s, saved) ==
  IF saved.found
    THEN RESTORE_ANSWERS(
           SET_CURRENT_QUESTION(s, saved.value.currentQuestionIndex),
           saved.value.answers)
    ELSE s

\* the try block of loadQuestions once the fetch has delivered its document
LoadSucceeded(s, a, questions, ls, mode) ==
  SET_RETRY_COUNT(
    RestoreProgress(SET_QUESTIONS(s, questions), getItem(a.sa, a.fb, ls, mode)),
    0)

\* a variant of the catch block that stores the count without the increment
LoadFailedNoIncrement(s, a, message) ==
  SET_RETRY_COUNT(SET_ERROR(s, getErrorMessage(message, a.rc)), a.rc)

\* the catch block of loadQuestions
LoadFailed(s, a, message) ==
  SET_RETRY_COUNT(SET_ERROR(s, getErrorMessage(message, a.rc)), a.rc + 1)

\* the mount of the hooks: the probe effect of useStorage, then the effect
\* of useQuiz calling loadQuestions() with the closure of the first render
MountedState == SET_LOADING(InitialState, TRUE)
MountedInflight == <<NewAttempt(InitialState.retryCount, TRUE, NoItem)>>

Mounted(mode) ==
  /\ lsMode = mode
  /\ state = MountedState
  /\ hasLoadedRef = TRUE
  /\ isStorageAvailable = Probe(mode)
  /\ fallbackStorage = NoItem
  /\ inflight = MountedInflight
  /\ queue = <<>>
  /\ otherKey = NoOther
  /\ selectedOptions = <<>>

\* a first visit with a working localStorage: nothing is stored yet
Init ==
  /\ lsItem = NoItem
  /\ Mounted("ok")

\* a pending fetch resolves (document or failure) and loadQuestions runs on
LoadResolve(i, resp) ==
  /\ i \in 1..Len(inflight)
  /\ IF resp.ok
       THEN state' = LoadSucceeded(state, inflight[i], resp.questions, lsItem, lsMode)
       ELSE /\ inflight[i].rc < MaxRetry
            /\ state' = LoadFailed(state, inflight[i], resp.message)
  /\ inflight' = RemoveAt(inflight, i)
  /\ UNCHANGED <<hasLoadedRef, lsItem, lsMode, isStorageAvailable,
                 fallbackStorage, queue, otherKey, selectedOptions>>

\* loadQuestions() called without isRetry: returns at the hasLoadedRef guard
\* (the ref is set by the mount effect and again by the effect after a reset)
LoadQuestions ==
  /\ hasLoadedRef
  /\ UNCHANGED vars

\* retryLoading(): loadQuestions(true) passes the guard and starts a fetch
RetryLoading ==
  /\ Len(inflight) < MaxInFlight
  /\ state' = SET_LOADING(state, TRUE)
  /\ inflight' = Append(inflight,
                        NewAttempt(state.retryCount, isStorageAvailable, fallbackStorage))
  /\ UNCHANGED <<hasLoadedRef, lsItem, lsMode, isStorageAvailable,
                 fallbackStorage, queue, otherKey, selectedOptions>>

-----------------------------------------------------------------------------
(* useQuiz: answerQuestion, nextQuestion, previousQuestion, resetQuiz      *)

ApplyStore(st) ==
  /\ lsItem' = st.ls
  /\ isStorageAvailable' = st.sa
  /\ fallbackStorage' = st.fb
  /\ inflight' = st.infl

AnswerProgress(s, question, answer) ==
  Progress(s.currentQuestionIndex,
           [s.answers EXCEPT ![question.id] = answer],
           IF IsCorrect(question, answer) THEN s.score + 1 ELSE s.score)

\* a variant that saves the progress also when there is no current question
AnswerQuestionAlwaysSaving(answer) ==
  /\ state.score < MaxScore
  /\ IF ~HasCurrentQuestion(state)
       THEN /\ ApplyStore(setItem(CurrentStore, lsMode,
                                  Progress(state.currentQuestionIndex,
                                           state.answers, state.score)))
            /\ UNCHANGED <<state, hasLoadedRef, lsMode, queue, otherKey,
                           selectedOptions>>
       ELSE LET question == CurrentQuestion(state) IN
            /\ state' = ANSWER_QUESTION(state, question.id, answer,
                                        IsCorrect(question, answer))
            /\ ApplyStore(setItem(CurrentStore, lsMode,
                                  AnswerProgress(state, question, answer)))
            /\ UNCHANGED <<hasLoadedRef, lsMode, queue, otherKey,
                           selectedOptions>>

AnswerQuestion(answer) ==
  /\ state.score < MaxScore
  /\ IF ~HasCurrentQuestion(state)
       THEN UNCHANGED vars
       ELSE LET question == CurrentQuestion(state) IN
            /\ state' = ANSWER_QUESTION(state, question.id, answer,
                                        IsCorrect(question, answer))
            /\ ApplyStore(setItem(CurrentStore, lsMode,
                                  AnswerProgress(state, question, answer)))
            /\ UNCHANGED <<hasLoadedRef, lsMode, queue, otherKey,
                           selectedOptions>>

\* storage.getItem('quizProgress') || {}, then the spread with the new index
NavigationProgress(newIndex) ==
  [getItem(isStorageAvailable, fallbackStorage, lsItem, lsMode).value
     EXCEPT !.currentQuestionIndex = newIndex]

\* a variant that moves on only when the progress could be saved
NextQuestionOnlyIfSaved ==
  IF /\ state.currentQuestionIndex < Len(state.questions) - 1
     /\ setItem(CurrentStore, lsMode,
                NavigationProgress(state.currentQuestionIndex + 1)).ret
    THEN /\ state' = SET_CURRENT_QUESTION(state, state.currentQuestionIndex + 1)
         /\ ApplyStore(setItem(CurrentStore, lsMode,
                               NavigationProgress(state.currentQuestionIndex + 1)))
         /\ UNCHANGED <<hasLoadedRef, lsMode, queue, otherKey, selectedOptions>>
    ELSE UNCHANGED vars

NextQuestion ==
  IF state.currentQuestionIndex < Len(state.questions) - 1
    THEN /\ state' = SET_CURRENT_QUESTION(state, state.currentQuestionIndex + 1)
         /\ ApplyStore(setItem(CurrentStore, lsMode,
                               NavigationProgress(state.currentQuestionIndex + 1)))
         /\ UNCHANGED <<hasLoadedRef, lsMode, queue, otherKey, selectedOptions>>
    ELSE UNCHANGED vars

PreviousQuestion ==
  IF state.currentQuestionIndex > 0
    THEN /\ state' = SET_CURRENT_QUESTION(state, state.currentQuestionIndex - 1)
         /\ ApplyStore(setItem(CurrentStore, lsMode,
                               NavigationProgress(state.currentQuestionIndex - 1)))
         /\ UNCHANGED <<hasLoadedRef, lsMode, queue, otherKey, selectedOptions>>
    ELSE UNCHANGED vars

\* resetQuiz clears hasLoadedRef; the render it causes hands the effect a new
\* loadQuestions (useStorage returns a new object on every render), so the
\* effect calls loadQuestions(), which passes the guard and starts a fetch
ResetStore == removeItem(CurrentStore, lsMode)

ResetQuiz ==
  /\ Len(inflight) < MaxInFlight
  /\ state' = SET_LOADING(RESET_QUIZ(state), TRUE)
  /\ hasLoadedRef' = TRUE
  /\ lsItem' = ResetStore.ls
  /\ isStorageAvailable' = ResetStore.sa
  /\ fallbackStorage' = ResetStore.fb
  /\ inflight' = Append(ResetStore.infl,
                        NewAttempt(RESET_QUIZ(state).retryCount,
                                   ResetStore.sa, ResetStore.fb))
  /\ UNCHANGED <<lsMode, queue, otherKey, selectedOptions>>

-----------------------------------------------------------------------------
(* useQuiz: the derived queries computed on every render                   *)

\* a variant that rounds down
RoundedPercentFloor(num, den) == (100 * num) \div den

\* Math.round((num / den) * 100) for num >= 0 and den > 0
RoundedPercent(num, den) == (200 * num + den) \div (2 * den)

\* Object.keys(answers)
ObjectKeys(answers) == {id \in Ids : answers[id].def}

Max(a, b) == IF a >= b THEN a ELSE b

calculateProgress(s) ==
  LET totalQuestions == Len(s.questions)
      answeredQuestions == Cardinality(ObjectKeys(s.answers))
  IN [totalQuestions |-> totalQuestions,
      answeredQuestions |-> answeredQuestions,
      remainingQuestions |-> Max(0, totalQuestions - answeredQuestions),
      progressPercentage |->
        IF totalQuestions > 0
          THEN RoundedPercent(answeredQuestions, totalQuestions) ELSE 0,
      currentProgressPercentage |->
        IF totalQuestions > 0
          THEN RoundedPercent(s.currentQuestionIndex + 1, totalQuestions) ELSE 0,
      isComplete |-> s.currentQuestionIndex >= totalQuestions /\ totalQuestions > 0,
      scorePercentage |->
        IF totalQuestions > 0 THEN RoundedPercent(s.score, totalQuestions) ELSE 0]

\* the positions of the questions the forEach has counted under a category
\* into total, answered, correct and incorrect
InCategory(s, category) ==
  {k \in 1..Len(s.questions) : s.questions[k].category = category}
AnsweredIn(s, category) ==
  {k \in InCategory(s, category) : s.answers[s.questions[k].id].def}
CorrectIn(s, category) ==
  {k \in AnsweredIn(s, category) :
     IsCorrect(s.questions[k], s.answers[s.questions[k].id])}

calculateCategoryStats(s) ==
  [category \in {s.questions[k].category : k \in 1..Len(s.questions)} |->
     LET total == Cardinality(InCategory(s, category))
         answered == Cardinality(AnsweredIn(s, category))
         correct == Cardinality(CorrectIn(s, category))
     IN [total |-> total,
         answered |-> answered,
         correct |-> correct,
         incorrect |-> Cardinality(AnsweredIn(s, category) \ CorrectIn(s, category)),
         correctPercentage |->
           IF answered > 0 THEN RoundedPercent(correct, answered) ELSE 0,
         progressPercentage |->
           IF total > 0 THEN RoundedPercent(answered, total) ELSE 0]]

\* getAnswerAnalysis: the three lists, each entry given by its questionId
QuestionIds(questions) == [k \in 1..Len(questions) |-> questions[k].id]

getAnswerAnalysis(s) ==
  LET Answered(q) == s.answers[q.id].def
      AnsweredCorrect(q) == Answered(q) /\ IsCorrect(q, s.answers[q.id])
      AnsweredIncorrect(q) == Answered(q) /\ ~IsCorrect(q, s.answers[q.id])
      Unanswered(q) == ~Answered(q)
  IN [correctAnswers |-> QuestionIds(SelectSeq(s.questions, AnsweredCorrect)),
      incorrectAnswers |-> QuestionIds(SelectSeq(s.questions, AnsweredIncorrect)),
      unanswered |-> QuestionIds(SelectSeq(s.questions, Unanswered))]

-----------------------------------------------------------------------------
(* The environment: the page is loaded again, the origin's storage fills up *)

PageReload ==
  /\ state' = MountedState
  /\ hasLoadedRef' = TRUE
  /\ isStorageAvailable' = Probe(lsMode)
  /\ fallbackStorage' = NoItem
  /\ inflight' = MountedInflight
  /\ UNCHANGED <<lsItem, lsMode, queue, otherKey, selectedOptions>>

QuotaExceeded ==
  /\ lsMode = "ok"
  /\ lsMode' = "quota"
  /\ UNCHANGED <<state, hasLoadedRef, lsItem, isStorageAvailable,
                 fallbackStorage, inflight, queue, otherKey, selectedOptions>>

-----------------------------------------------------------------------------
(* The hook driven through its interface, in any order, with a working     *)
(* localStorage                                                            *)

AnswerInputs == {Num(0), Arr(<<0, 1>>)}

Next ==
  \/ \E i \in 1..MaxInFlight : \E resp \in Responses : LoadResolve(i, resp)
  \/ LoadQuestions
  \/ RetryLoading
  \/ \E answer \in AnswerInputs : AnswerQuestion(answer)
  \/ NextQuestion
  \/ PreviousQuestion
  \/ ResetQuiz
  \/ PageReload

Spec == Init /\ [][Next]_vars

-----------------------------------------------------------------------------
(* The hook driven by the Quiz and Question views: a handler can be called *)
(* only from the screen that shows its control                             *)

\* Quiz: if (loading) / if (error) / if (!questions.length) / isQuizComplete
ScreenLoading == state.loading
ScreenError == ~state.loading /\ state.error # NoError
ScreenNoQuestions ==
  ~state.loading /\ state.error = NoError /\ Len(state.questions) = 0
ScreenComplete ==
  /\ ~state.loading /\ state.error = NoError /\ Len(state.questions) > 0
  /\ state.currentQuestionIndex >= Len(state.questions)
ScreenQuestion ==
  /\ ~state.loading /\ state.error = NoError /\ Len(state.questions) > 0
  /\ state.currentQuestionIndex < Len(state.questions)

\* canRetry = retryCount < 3
RetryCeiling == 3
canRetry == state.retryCount < RetryCeiling

\* the selections the Question view can submit: option indices in the order
\* they were switched on, none twice, at least one
Selections(question) ==
  {sel \in UNION {[1..n -> 0..(Len(question.options) - 1)] : n \in 1..MaxSel} :
     \A j, k \in 1..Len(sel) : j # k => sel[j] # sel[k]}

\* handleOptionClick on a single-choice question, handleSubmitMultiple
ViewAnswers(question) ==
  IF question.type = "multiple"
    THEN {Arr(sel) : sel \in Selections(question)}
    ELSE {Num(i) : i \in 0..(Len(question.options) - 1)}

ClickTryAgain ==
  /\ (ScreenError /\ canRetry) \/ ScreenNoQuestions
  /\ RetryLoading

ClickOption ==
  /\ ScreenQuestion
  /\ \E answer \in ViewAnswers(CurrentQuestion(state)) : AnswerQuestion(answer)

ClickNext ==
  /\ ScreenQuestion
  /\ ~(state.currentQuestionIndex >= Len(state.questions) - 1)
  /\ NextQuestion

ClickPrevious ==
  /\ ScreenQuestion
  /\ state.currentQuestionIndex # 0
  /\ PreviousQuestion

ClickStartOver ==
  /\ ScreenComplete
  /\ ResetQuiz

InitUI ==
  /\ lsItem = NoItem
  /\ \E mode \in {"ok", "throws"} : Mounted(mode)

NextUI ==
  \/ \E i \in 1..MaxInFlight : \E resp \in Responses : LoadResolve(i, resp)
  \/ ClickTryAgain
  \/ ClickOption
  \/ ClickNext
  \/ ClickPrevious
  \/ ClickStartOver
  \/ PageReload
  \/ QuotaExceeded

SpecUI == InitUI /\ [][NextUI]_vars

-----------------------------------------------------------------------------
(* Answer validation on its own: one loaded question, any submitted answer *)

S1 == Question(1, "Speed limits", "single", <<"a", "b", "c">>, <<"b">>)
S2 == Question(1, "Speed limits", "single", <<"a", "a", "b">>, <<"a">>)
S3 == Question(1, "Speed limits", "single", <<"a", "b">>, <<"c">>)
M1 == Question(1, "Speed limits", "multiple", <<"a", "b", "c">>, <<"a", "b">>)
M2 == Question(1, "Speed limits", "multiple", <<"a", "b">>, <<"b">>)

ScoringBanks == {<<S1>>, <<S2>>, <<S3>>, <<M1>>, <<M2>>}

MaxIndex == 3
ScoringInputs ==
  {Num(i) : i \in 0..MaxIndex}
    \cup {Arr(sel) : sel \in UNION {[1..n -> 0..(MaxIndex - 1)] : n \in 0..MaxSel}}

\* the state after the first load delivered the bank and found no progress
InitScoring ==
  /\ lsItem = NoItem
  /\ lsMode = "ok"
  /\ \E bank \in ScoringBanks :
       state = LoadSucceeded(MountedState, MountedInflight[1], bank, NoItem, "ok")
  /\ hasLoadedRef = TRUE
  /\ isStorageAvailable = TRUE
  /\ fallbackStorage = NoItem
  /\ inflight = <<>>
  /\ queue = <<>>
  /\ otherKey = NoOther
  /\ selectedOptions = <<>>

NextScoring == \E answer \in ScoringInputs : AnswerQuestion(answer)

SpecScoring == InitScoring /\ [][NextScoring]_vars

-----------------------------------------------------------------------------
(* loadQuestions from the fetch to the dispatch: what the network, the     *)
(* 15-second timer and the YAML parser can hand to the try block           *)

\* an entry of data.questions: the question, the fields it lacks, the fields
\* it has with a falsy value (id: 0, text: '', correct: ''), or null for an
\* empty list item
RawEntry(q, missing) == [q |-> q, missing |-> missing, falsy |-> {}, isNull |-> FALSE]
FalsyEntry(q, falsy) == [q |-> q, missing |-> {}, falsy |-> falsy, isNull |-> FALSE]
NullEntry == [q |-> Q1, missing |-> {}, falsy |-> {}, isNull |-> TRUE]

Valid(bank) == [k \in 1..Len(bank) |-> RawEntry(bank[k], {})]

\* the body of the response and what yaml.load makes of it: data is "throws"
\* (parser exception), "null", "noQuestions" (no questions field),
\* "notArray" or "list"
Doc(blank, data, entries) == [blank |-> blank, data |-> data, entries |-> entries]
NoDoc == Doc(TRUE, "null", <<>>)

DocBlank == NoDoc
DocUnparsable == Doc(FALSE, "throws", <<>>)
DocNull == Doc(FALSE, "null", <<>>)
DocNoQuestions == Doc(FALSE, "noQuestions", <<>>)
DocNotArray == Doc(FALSE, "notArray", <<>>)
DocEmptyList == Doc(FALSE, "list", <<>>)
DocOneInvalid == Doc(FALSE, "list", <<RawEntry(Q1, {}), RawEntry(Q2, {"correct"})>>)
DocTwoInvalid ==
  Doc(FALSE, "list", <<RawEntry(Q1, {"options", "correct"}), RawEntry(Q2, {"text", "correct"})>>)
DocNullEntry == Doc(FALSE, "list", <<RawEntry(Q1, {}), NullEntry>>)
DocZeroId == Doc(FALSE, "list", <<RawEntry(Q1, {}), FalsyEntry(Q2, {"id"})>>)
DocA == Doc(FALSE, "list", Valid(BankA))
DocB == Doc(FALSE, "list", Valid(BankB))

FailingDocs ==
  {DocBlank, DocUnparsable, DocNull, DocNoQuestions, DocNotArray, DocEmptyList,
   DocOneInvalid, DocTwoInvalid, DocNullEntry, DocZeroId}

\* the message of the AbortError that fetch rejects with after
\* controller.abort() was called without a reason (it differs by engine)
AbortMessages ==
  {<<"signal", "is", "aborted", "without", "reason">>,
   <<"the", "operation", "was", "aborted.">>,
   <<"fetch", "is", "aborted">>}

\* what became of the fetch: it was rejected, the timer aborted it, or it
\* delivered a response (ok or not) with a body
Rejected(message) ==
  [kind |-> "rejected", message |-> message, ok |-> FALSE, status |-> <<>>, doc |-> NoDoc]
Aborted(message) ==
  [kind |-> "aborted", message |-> message, ok |-> FALSE, status |-> <<>>, doc |-> NoDoc]
Response(ok, status, doc) ==
  [kind |-> "response", message |-> <<>>, ok |-> ok, status |-> status, doc |-> doc]

FetchOutcomes ==
  {Rejected(MsgFailedToFetch)}
    \cup {Aborted(m) : m \in AbortMessages}
    \cup {Response(FALSE, <<"404", "not", "found">>, NoDoc),
          Response(FALSE, <<"500", "internal", "server", "error">>, NoDoc)}
    \cup {Response(TRUE, <<"200", "ok">>, d) : d \in FailingDocs \cup {DocA, DocB}}

\* the decimal text of a count inside a template string
CountWord(n) == <<"0", "1", "2", "3">>[n + 1]

\* a variant of the filter that finds no entry invalid
invalidQuestionsNone(entries) == {}

\* data.questions.filter(q => !q.id || !q.text || !q.options || ... )
invalidQuestions(entries) ==
  {k \in 1..Len(entries) : entries[k].missing # {} \/ entries[k].falsy # {}}

Thrown(message) == [ok |-> FALSE, questions |-> <<>>, message |-> message]

\* the try block up to dispatch SET_QUESTIONS: the document it admits, or the
\* (lower-cased) message of the error that reaches the catch block
loadResult(outcome) ==
  IF outcome.kind # "response"
    THEN Thrown(outcome.message)
  ELSE IF ~outcome.ok
    THEN Thrown(<<"failed", "to", "load", "questions:">> \o outcome.status)
  ELSE IF outcome.doc.blank
    THEN Thrown(<<"questions", "file", "is", "empty">>)
  ELSE IF outcome.doc.data = "throws"
    THEN Thrown(<<"invalid", "yaml">>)
  ELSE IF outcome.doc.data = "null"
    THEN Thrown(<<"questions", "file", "contains", "no", "data">>)
  ELSE IF outcome.doc.data \in {"noQuestions", "notArray"}
    THEN Thrown(<<"invalid", "questions", "format", "in", "yaml", "file", "-",
                  "missing", "or", "invalid", "questions", "array">>)
  ELSE IF Len(outcome.doc.entries) = 0
    THEN Thrown(<<"questions", "file", "contains", "no", "questions">>)
  ELSE IF \E k \in 1..Len(outcome.doc.entries) : outcome.doc.entries[k].isNull
    THEN Thrown(<<"cannot", "read", "properties", "of", "null">>)
  ELSE IF invalidQuestions(outcome.doc.entries) # {}
    THEN Thrown(<<"invalid", "question", "format", "found", "in",
                  CountWord(Cardinality(invalidQuestions(outcome.doc.entries))),
                  "question(s)">>)
  ELSE [ok |-> TRUE,
        questions |-> [k \in 1..Len(outcome.doc.entries) |-> outcome.doc.entries[k].q],
        message |-> <<>>]

\* a pending fetch settles and loadQuestions runs to its end
LoadFetched(i, outcome) == LoadResolve(i, loadResult(outcome))

\* the Quiz view over a working localStorage, the fetch settling in any way
NextLoad ==
  \/ \E i \in 1..MaxInFlight : \E outcome \in FetchOutcomes : LoadFetched(i, outcome)
  \/ ClickTryAgain
  \/ ClickOption
  \/ ClickNext
  \/ ClickPrevious
  \/ ClickStartOver
  \/ PageReload

SpecLoad == Init /\ [][NextLoad]_vars

-----------------------------------------------------------------------------
(* The hook over a localStorage that can fail: unavailable from the start, *)
(* full (writes rejected for quota), or blocked (every call throws)        *)

StorageBlocked ==
  /\ lsMode = "ok"
  /\ lsMode' = "throws"
  /\ UNCHANGED <<state, hasLoadedRef, lsItem, isStorageAvailable,
                 fallbackStorage, inflight, queue, otherKey, selectedOptions>>

\* the documents the loads of one visit deliver, and the option clicked
OkResponses == {resp \in Responses : resp.ok}
FirstOption == Num(0)

NextStorage ==
  \/ \E i \in 1..MaxInFlight : \E resp \in OkResponses : LoadResolve(i, resp)
  \/ AnswerQuestion(FirstOption)
  \/ NextQuestion
  \/ PreviousQuestion
  \/ ResetQuiz
  \/ QuotaExceeded
  \/ StorageBlocked

SpecStorage == InitUI /\ [][NextStorage]_vars

-----------------------------------------------------------------------------
(* One run through a quiz of three questions, each answered once           *)

BankE ==
  <<Question(1, "Speed limits", "single", <<"a", "b">>, <<"a">>),
    Question(2, "Traffic signs", "single", <<"a", "b">>, <<"b">>),
    Question(3, "Speed limits", "multiple", <<"a", "b", "c">>, <<"a", "b">>)>>

InitE2E ==
  /\ lsItem = NoItem
  /\ lsMode = "ok"
  /\ state = LoadSucceeded(MountedState, MountedInflight[1], BankE, NoItem, "ok")
  /\ hasLoadedRef = TRUE
  /\ isStorageAvailable = TRUE
  /\ fallbackStorage = NoItem
  /\ inflight = <<>>
  /\ queue = <<>>
  /\ otherKey = NoOther
  /\ selectedOptions = <<>>

\* an option of the question on display is chosen, the question not having
\* been answered before
AnswerOnce ==
  /\ HasCurrentQuestion(state)
  /\ ~state.answers[CurrentQuestion(state).id].def
  /\ \E answer \in ViewAnswers(CurrentQuestion(state)) : AnswerQuestion(answer)

NextE2E ==
  \/ AnswerOnce
  \/ NextQuestion
  \/ PreviousQuestion

SpecE2E == InitE2E /\ [][NextE2E]_vars

-----------------------------------------------------------------------------
(* A visit that finds anything under 'quizProgress': nothing, a snapshot,  *)
(* or a text that is no JSON                                               *)

CorruptItem == TextItem(NoText)

\* nothing stored, a text that is no JSON, or the progress of an earlier visit
InitVisit ==
  /\ lsItem \in {NoItem, CorruptItem,
                 TextItem(JSONstringify(
                   Progress(1, [EmptyAnswers EXCEPT ![1] = Num(0)], 1)))}
  /\ \E mode \in {"ok", "throws"} : Mounted(mode)

NextVisit ==
  \/ \E i \in 1..MaxInFlight : \E resp \in OkResponses : LoadResolve(i, resp)
  \/ AnswerQuestion(FirstOption)
  \/ NextQuestion
  \/ PreviousQuestion
  \/ StorageBlocked

SpecVisit == InitVisit /\ [][NextVisit]_vars

-----------------------------------------------------------------------------
(* The handlers at the grain of React's update queue: a handler runs with  *)
(* the state of the last render, dispatch() only queues its action, the    *)
(* storage call that follows it in the handler runs at once, and the       *)
(* reducer is applied at the re-render that follows the handler's return   *)

Dispatched(type, questionId, answer, isCorrect, payload) ==
  [type |-> type, questionId |-> questionId, answer |-> answer,
   isCorrect |-> isCorrect, payload |-> payload]

quizReducer(s, action) ==
  CASE action.type = "ANSWER_QUESTION" ->
         ANSWER_QUESTION(s, action.questionId, action.answer, action.isCorrect)
    [] action.type = "SET_CURRENT_QUESTION" ->
         SET_CURRENT_QUESTION(s, action.payload)
    [] action.type = "RESET_QUIZ" -> RESET_QUIZ(s)

answerQuestionRuns(answer) ==
  /\ queue = <<>>
  /\ state.score < MaxScore
  /\ HasCurrentQuestion(state)
  /\ LET question == CurrentQuestion(state) IN
       /\ queue' = <<Dispatched("ANSWER_QUESTION", question.id, answer,
                                IsCorrect(question, answer), 0)>>
       /\ ApplyStore(setItem(CurrentStore, lsMode,
                             AnswerProgress(state, question, answer)))
  /\ UNCHANGED <<state, hasLoadedRef, lsMode, otherKey, selectedOptions>>

navigationRuns(newIndex) ==
  /\ queue' = <<Dispatched("SET_CURRENT_QUESTION", 0, NoAnswer, FALSE, newIndex)>>
  /\ ApplyStore(setItem(CurrentStore, lsMode, NavigationProgress(newIndex)))
  /\ UNCHANGED <<state, hasLoadedRef, lsMode, otherKey, selectedOptions>>

nextQuestionRuns ==
  /\ queue = <<>>
  /\ state.currentQuestionIndex < Len(state.questions) - 1
  /\ navigationRuns(state.currentQuestionIndex + 1)

previousQuestionRuns ==
  /\ queue = <<>>
  /\ state.currentQuestionIndex > 0
  /\ navigationRuns(state.currentQuestionIndex - 1)

resetQuizRuns ==
  /\ queue = <<>>
  /\ Len(inflight) < MaxInFlight
  /\ queue' = <<Dispatched("RESET_QUIZ", 0, NoAnswer, FALSE, 0)>>
  /\ ApplyStore(ResetStore)
  /\ hasLoadedRef' = FALSE
  /\ UNCHANGED <<state, lsMode, otherKey, selectedOptions>>

\* the re-render: the queued action goes through the reducer, and the effect
\* runs loadQuestions(), which starts a fetch when resetQuiz cleared the ref
Commit ==
  /\ queue # <<>>
  /\ queue' = <<>>
  /\ LET s == quizReducer(state, queue[1]) IN
       IF hasLoadedRef
         THEN /\ state' = s
              /\ UNCHANGED <<hasLoadedRef, inflight>>
         ELSE /\ state' = SET_LOADING(s, TRUE)
              /\ hasLoadedRef' = TRUE
              /\ inflight' = Append(inflight,
                                    NewAttempt(s.retryCount, isStorageAvailable,
                                               fallbackStorage))
  /\ UNCHANGED <<lsItem, lsMode, isStorageAvailable, fallbackStorage,
                 otherKey, selectedOptions>>

\* a fetch resolves in a task of its own, never between a handler and the
\* re-render it caused
LoadResolveBetweenEvents ==
  /\ queue = <<>>
  /\ \E i \in 1..MaxInFlight : \E resp \in OkResponses : LoadResolve(i, resp)

NextCommit ==
  \/ LoadResolveBetweenEvents
  \/ \E answer \in AnswerInputs : answerQuestionRuns(answer)
  \/ nextQuestionRuns
  \/ previousQuestionRuns
  \/ resetQuizRuns
  \/ Commit

SpecCommit == Init /\ [][NextCommit]_vars

-----------------------------------------------------------------------------
(* What the validation of loadQuestions admits: documents whose entries    *)
(* have every field, with a correct answer that is no option or with an    *)
(* empty options list, and the answers the hook is then handed             *)

DocDangling ==
  Doc(FALSE, "list",
      Valid(<<Question(1, "Speed limits", "single", <<"a", "b">>, <<"c">>),
              Question(2, "Speed limits", "single", <<>>, <<"a">>),
              Question(3, "Traffic signs", "multiple", <<"a", "b">>, <<"a", "c">>)>>))

AdmitOutcomes ==
  {Response(TRUE, <<"200", "ok">>, doc) : doc \in {DocA, DocDangling, DocOneInvalid}}

\* indices handed to answerQuestion: options of the list and -1
AdmitInputs == {Num(-1), Num(0), Arr(<<-1, 0>>)}

NextAdmit ==
  \/ \E i \in 1..MaxInFlight : \E outcome \in AdmitOutcomes : LoadFetched(i, outcome)
  \/ RetryLoading
  \/ \E answer \in AdmitInputs : AnswerQuestion(answer)
  \/ NextQuestion
  \/ PreviousQuestion

SpecAdmit == Init /\ [][NextAdmit]_vars

-----------------------------------------------------------------------------
(* loadQuestions at the grain of its two awaits: the fetch, raced by the   *)
(* 15-second timer, and, after clearTimeout, the read of the body          *)

TimerArmed(i) == i \in 1..Len(inflight) /\ inflight[i].timer

\* the network rejects the fetch before the timer fires
FetchRejected(i) ==
  /\ TimerArmed(i)
  /\ LoadFetched(i, Rejected(MsgFailedToFetch))

\* the timer fires first: controller.abort() rejects the fetch
TimerFires(i) ==
  /\ TimerArmed(i)
  /\ \E message \in AbortMessages : LoadFetched(i, Aborted(message))

\* a response with a status that is not ok: the timer is cleared, the throw
\* follows without another await
ResponseNotOk(i) ==
  /\ TimerArmed(i)
  /\ LoadFetched(i, Response(FALSE, <<"404", "not", "found">>, NoDoc))

\* an ok response: clearTimeout(timeoutId), then await response.text()
HeadersArrive(i) ==
  /\ TimerArmed(i)
  /\ inflight' = [inflight EXCEPT ![i].timer = FALSE]
  /\ UNCHANGED <<state, hasLoadedRef, lsItem, lsMode, isStorageAvailable,
                 fallbackStorage, queue, otherKey, selectedOptions>>

\* the body has been read: the rest of the try block runs
BodyArrives(i) ==
  /\ i \in 1..Len(inflight)
  /\ ~inflight[i].timer
  /\ \E doc \in {DocA, DocB, DocOneInvalid} :
       LoadFetched(i, Response(TRUE, <<"200", "ok">>, doc))

\* the first await of an attempt ends: by the network or by the timer
FetchSettles ==
  \E i \in 1..MaxInFlight :
    FetchRejected(i) \/ TimerFires(i) \/ ResponseNotOk(i) \/ HeadersArrive(i)

NextTimer ==
  \/ FetchSettles
  \/ \E i \in 1..MaxInFlight : BodyArrives(i)
  \/ ClickTryAgain
  \/ ClickOption
  \/ ClickNext
  \/ ClickPrevious

\* the timer of a pending fetch does fire; the network owes nothing
SpecTimer == Init /\ [][NextTimer]_vars /\ WF_vars(FetchSettles)

-----------------------------------------------------------------------------
(* Overlapping loads: the mount load is still pending when retryLoading()  *)
(* starts a second one, and the second one is the first to succeed         *)

InitLate ==
  /\ lsItem = NoItem
  /\ lsMode = "ok"
  /\ state = LoadSucceeded(SET_LOADING(MountedState, TRUE),
                           NewAttempt(MountedState.retryCount, TRUE, NoItem),
                           BankA, NoItem, "ok")
  /\ hasLoadedRef = TRUE
  /\ isStorageAvailable = TRUE
  /\ fallbackStorage = NoItem
  /\ inflight = MountedInflight
  /\ queue = <<>>
  /\ otherKey = NoOther
  /\ selectedOptions = <<>>

\* the quiz is used, and at some point the mount load resolves
NextLate ==
  \/ \E resp \in Responses : LoadResolve(1, resp)
  \/ \E answer \in AnswerInputs : AnswerQuestion(answer)
  \/ NextQuestion
  \/ PreviousQuestion

SpecLate == InitLate /\ [][NextLate]_vars

-----------------------------------------------------------------------------
(* useStorage on its own, as its tests render it: values are set, read and *)
(* removed under two keys while localStorage fills up                      *)

Keys == {"quizProgress", "test-key"}
StoredValues ==
  {EmptyObject, Progress(0, EmptyAnswers, 0), Progress(1, EmptyAnswers, 1)}

\* localStorage and the Map under one key, with the isStorageAvailable of
\* the current render
KeyStore(key) ==
  IF key = "quizProgress"
    THEN CurrentStore
    ELSE Store(otherKey.ls, isStorageAvailable, otherKey.fb, inflight, TRUE)

\* storage.getItem(key, defaultValue) of the current render
Get(key) == getItem(isStorageAvailable, KeyStore(key).fb, KeyStore(key).ls, lsMode)

ApplyKey(key, st) ==
  IF key = "quizProgress"
    THEN ApplyStore(st) /\ UNCHANGED otherKey
    ELSE /\ otherKey' = [ls |-> st.ls, fb |-> st.fb]
         /\ isStorageAvailable' = st.sa
         /\ UNCHANGED <<lsItem, fallbackStorage, inflight>>

SetItem(key, value) ==
  /\ ApplyKey(key, setItem(KeyStore(key), lsMode, value))
  /\ UNCHANGED <<state, hasLoadedRef, lsMode, queue, selectedOptions>>

RemoveItem(key) ==
  /\ ApplyKey(key, removeItem(KeyStore(key), lsMode))
  /\ UNCHANGED <<state, hasLoadedRef, lsMode, queue, selectedOptions>>

\* the hook after its mount effect, with a localStorage that works or that
\* failed the probe
InitAdapter ==
  /\ lsItem = NoItem
  /\ \E mode \in {"ok", "throws"} : lsMode = mode /\ isStorageAvailable = Probe(mode)
  /\ state = InitialState
  /\ hasLoadedRef = FALSE
  /\ fallbackStorage = NoItem
  /\ inflight = <<>>
  /\ queue = <<>>
  /\ otherKey = NoOther
  /\ selectedOptions = <<>>

NextAdapter ==
  \/ \E key \in Keys : \E value \in StoredValues : SetItem(key, value)
  \/ \E key \in Keys : RemoveItem(key)
  \/ QuotaExceeded

SpecAdapter == InitAdapter /\ [][NextAdapter]_vars

-----------------------------------------------------------------------------
(* The Question view with its own state: on a multiple-choice question an  *)
(* option click toggles the option in selectedOptions and Submit Answer    *)
(* hands the selection to answerQuestion. Quiz renders <Question> without  *)
(* a key, so the component and its state stay while questions change.      *)

InitView ==
  /\ lsItem = NoItem
  /\ lsMode = "ok"
  /\ state = LoadSucceeded(MountedState, MountedInflight[1], <<M2, Q2>>, NoItem, "ok")
  /\ hasLoadedRef = TRUE
  /\ isStorageAvailable = TRUE
  /\ fallbackStorage = NoItem
  /\ inflight = <<>>
  /\ queue = <<>>
  /\ otherKey = NoOther
  /\ selectedOptions = <<>>

\* handleOptionClick(index) on a multiple-choice question
handleOptionClick(index) ==
  /\ ScreenQuestion
  /\ CurrentQuestion(state).type = "multiple"
  /\ index \in 0..(Len(CurrentQuestion(state).options) - 1)
  /\ selectedOptions' =
       IF ArrIncludes(selectedOptions, index)
         THEN SelectSeq(selectedOptions, LAMBDA i : i # index)
         ELSE Append(selectedOptions, index)
  /\ UNCHANGED <<state, hasLoadedRef, lsItem, lsMode, isStorageAvailable,
                 fallbackStorage, inflight, queue, otherKey>>

\* handleSubmitMultiple: the button is disabled for an empty selection
handleSubmitMultiple ==
  /\ ScreenQuestion
  /\ CurrentQuestion(state).type = "multiple"
  /\ selectedOptions # <<>>
  /\ AnswerQuestion(Arr(selectedOptions))

NextView ==
  \/ \E index \in 0..(MaxIndex - 1) : handleOptionClick(index)
  \/ handleSubmitMultiple
  \/ ClickNext
  \/ ClickPrevious

SpecView == InitView /\ [][NextView]_vars

-----------------------------------------------------------------------------
(* Properties                                                              *)

\* the question of the loaded list that an answer entry belongs to
QuestionsWithId(s, id) == {k \in 1..Len(s.questions) : s.questions[k].id = id}

\* the entries of the answer mapping whose stored answer is correct
CorrectEntries(s) ==
  {id \in Ids : /\ s.answers[id].def
                /\ \E k \in QuestionsWithId(s, id) :
                     IsCorrect(s.questions[k], s.answers[id])}

\* C1: in every reachable state the score equals the number of entries of
\* the answer mapping whose stored answer is correct for its question
C1_ScoreCountsCorrectEntries ==
  state.score = Cardinality(CorrectEntries(state))

\* what the load that resolves as inflight[i] reads from storage
SavedProgress(i) == getItem(inflight[i].sa, inflight[i].fb, lsItem, lsMode)

\* C2: when a load succeeds and a persisted snapshot exists, position and
\* answers become those of the snapshot and the score becomes the number of
\* correct entries of the restored answers
C2_RestoreRecomputesScore ==
  [][\A i \in 1..MaxInFlight : \A resp \in Responses :
       (LoadResolve(i, resp) /\ resp.ok /\ SavedProgress(i).found)
         => /\ state'.currentQuestionIndex = SavedProgress(i).value.currentQuestionIndex
            /\ state'.answers = SavedProgress(i).value.answers
            /\ state'.score = Cardinality(CorrectEntries(state'))]_vars

\* C3: answering a question that already has a recorded answer changes
\* neither the answer mapping nor the score
C3_AnsweredOnlyOnce ==
  [][\A answer \in AnswerInputs :
       (/\ AnswerQuestion(answer)
        /\ HasCurrentQuestion(state)
        /\ state.answers[CurrentQuestion(state).id].def)
         => /\ state'.answers = state.answers
            /\ state'.score = state.score]_vars

\* C4: in every reachable state 0 <= position <= length
C4_PositionInRange ==
  /\ 0 <= state.currentQuestionIndex
  /\ state.currentQuestionIndex <= Len(state.questions)

\* C5: advance from a position p < length yields p + 1, so that from the
\* last question it reaches position = length
C5_AdvanceReachesCompletion ==
  HasCurrentQuestion(state)
    => ENABLED (/\ NextQuestion
                /\ state'.currentQuestionIndex = state.currentQuestionIndex + 1)

\* C6: reset yields position 0, no answers, score 0, no error, retry count 0
\* and leaves no persisted snapshot: neither a load started from the state
\* after the reset nor the load of the next page visit finds one to restore
C6_ResetClearsEverything ==
  [][ResetQuiz
       => /\ state'.currentQuestionIndex = 0
          /\ state'.answers = EmptyAnswers
          /\ state'.score = 0
          /\ state'.error = NoError
          /\ state'.retryCount = 0
          /\ ~getItem(isStorageAvailable', fallbackStorage', lsItem', lsMode').found
          /\ ~getItem(TRUE, NoItem, lsItem', lsMode').found]_vars

\* i is the position, counted from 0, at which the options first show the
\* correct string
IsIndexOfCorrect(question, i) ==
  /\ i + 1 \in 1..Len(question.options)
  /\ question.options[i + 1] = question.correct[1]
  /\ \A j \in 1..i : question.options[j] # question.correct[1]

\* C7: on a single-kind question the answer i is recorded, and the score
\* goes up by one if i is the index of the correct string within the
\* options and stays as it is otherwise
C7_SingleScoredByIndex ==
  [][\A i \in 0..MaxIndex :
       (/\ AnswerQuestion(Num(i))
        /\ HasCurrentQuestion(state)
        /\ CurrentQuestion(state).type = "single")
         => /\ state'.answers[CurrentQuestion(state).id] = Num(i)
            /\ IsIndexOfCorrect(CurrentQuestion(state), i)
                 => state'.score = state.score + 1
            /\ ~IsIndexOfCorrect(CurrentQuestion(state), i)
                 => state'.score = state.score]_vars

C7_Witness ==
  /\ state.questions = <<S1>>
  /\ state.answers[1] = Num(1)
  /\ state.score = 1

\* the set of indices within the options of the strings in correct
CorrectIndexSet(question) ==
  {i \in 0..(Len(question.options) - 1) :
     \E k \in 1..Len(question.correct) : question.options[i + 1] = question.correct[k]}

Range(seq) == {seq[k] : k \in 1..Len(seq)}

\* C8: on a multiple-kind question an answer is scored correct exactly when
\* the submitted indices, taken as a set, are the indices of the strings in
\* correct
C8_MultipleScoredBySetEquality ==
  [][\A answer \in ScoringInputs :
       (/\ AnswerQuestion(answer)
        /\ HasCurrentQuestion(state)
        /\ CurrentQuestion(state).type = "multiple")
         => (state'.score = state.score + 1
               <=> Range(answer.v) = CorrectIndexSet(CurrentQuestion(state)))]_vars

\* C9: a failed load attempt raises retryCount by exactly one (the first
\* failure of a visit makes it 1); a succeeding one sets retryCount to 0
\* and clears the error
C9_RetryCountCountsFailures ==
  [][\A i \in 1..MaxInFlight : \A resp \in Responses :
       LoadResolve(i, resp)
         => IF resp.ok
              THEN state'.retryCount = 0 /\ state'.error = NoError
              ELSE state'.retryCount = state.retryCount + 1]_vars

C9_Witness ==
  /\ state.retryCount = 2
  /\ state.error # NoError
  /\ ~state.loading

\* C10: at most one load attempt is in flight
C10_OneLoadInFlight == Len(inflight) <= 1

\* C11: every failed load attempt, whatever the failure, is taken by the
\* catch block: it can always run to its end, and it ends with loading =
\* false, a non-empty error message and retryCount raised by one
C11_FailureEndsInErrorState ==
  /\ [](\A i \in 1..Len(inflight) : \A outcome \in FetchOutcomes :
          inflight[i].rc < MaxRetry => ENABLED LoadFetched(i, outcome))
  /\ [][\A i \in 1..MaxInFlight : \A outcome \in FetchOutcomes :
          (LoadFetched(i, outcome) /\ ~loadResult(outcome).ok)
            => /\ ~state'.loading
               /\ state'.error # NoError
               /\ state'.error.kind # ""
               /\ state'.retryCount = state.retryCount + 1]_vars

C11_Witness ==
  /\ ~state.loading
  /\ state.error.detail = <<"questions", "file", "is", "empty">>
  /\ state.retryCount = 2

\* the load attempts that the loader must reject
Failing(outcome) ==
  outcome.kind # "response" \/ ~outcome.ok \/ outcome.doc \in FailingDocs

\* C12: a load attempt that fails, also for one invalid entry among valid
\* ones, leaves the question list as it was before the attempt and restores
\* nothing from the persisted snapshot
C12_ValidationAllOrNothing ==
  [][\A i \in 1..MaxInFlight : \A outcome \in FetchOutcomes :
       (LoadFetched(i, outcome) /\ Failing(outcome))
         => /\ state'.questions = state.questions
            /\ state'.currentQuestionIndex = state.currentQuestionIndex
            /\ state'.answers = state.answers
            /\ state'.score = state.score]_vars

C12_Witness ==
  /\ ~state.loading
  /\ state.error.detail =
       <<"invalid", "question", "format", "found", "in", "1", "question(s)">>
  /\ state.questions = <<>>
  /\ state.answers = EmptyAnswers
  /\ lsItem.present
  /\ lsItem.text.value.answers[1].def

\* the entries of a document that are structurally incomplete
InvalidEntries(doc) ==
  {k \in 1..Len(doc.entries) : doc.entries[k].isNull \/ doc.entries[k].missing # {}}

\* C13: each load failure is reported with the message of its own kind:
\* a rejected fetch with the connectivity message, a 404 response with the
\* not-found message, a document without a questions sequence with the
\* invalid-format message, an empty sequence with a message naming
\* 'no questions', an empty body with a message naming the empty file, and
\* invalid entries with a message carrying their count
C13_MessageOfOwnKind ==
  [][\A i \in 1..MaxInFlight : \A outcome \in FetchOutcomes :
       LoadFetched(i, outcome)
         => /\ outcome.kind = "rejected"
                 => state'.error.kind = "Network connection issue"
            /\ (outcome.kind = "response" /\ ~outcome.ok /\ outcome.status[1] = "404")
                 => state'.error.kind = "Questions file not found"
            /\ (outcome.kind = "response" /\ outcome.ok
                  /\ outcome.doc \in {DocNoQuestions, DocNotArray})
                 => state'.error.kind = "The questions file format is invalid"
            /\ (outcome.kind = "response" /\ outcome.ok /\ outcome.doc = DocEmptyList)
                 => /\ state'.error.kind = "Unable to load quiz questions"
                    /\ Includes(state'.error.detail, <<"no", "questions">>)
            /\ (outcome.kind = "response" /\ outcome.ok /\ outcome.doc = DocBlank)
                 => /\ state'.error.kind = "Unable to load quiz questions"
                    /\ Includes(state'.error.detail, <<"file", "is", "empty">>)
            /\ (outcome.kind = "response" /\ outcome.ok /\ ~outcome.doc.blank
                  /\ outcome.doc.data = "list" /\ InvalidEntries(outcome.doc) # {})
                 => /\ state'.error.kind = "Unable to load quiz questions"
                    /\ Includes(state'.error.detail,
                                <<CountWord(Cardinality(InvalidEntries(outcome.doc)))>>)
            ]_vars

\* C14: a load whose fetch the 15-second timer aborted is reported as a
\* timeout: the error is the 'Request timed out' message
C14_AbortReportedAsTimeout ==
  [][\A i \in 1..MaxInFlight : \A outcome \in FetchOutcomes :
       (LoadFetched(i, outcome) /\ outcome.kind = "aborted")
         => state'.error.kind = "Request timed out"]_vars

\* C15: with no current question (nothing loaded, or the position at or
\* beyond the length) answering changes nothing: not the answers, the score
\* or the position, and not the persisted snapshot
C15_AnswerWithoutQuestionIsNoOp ==
  ~HasCurrentQuestion(state)
    => \A answer \in AnswerInputs :
         ~ENABLED (AnswerQuestion(answer) /\ vars' # vars)

C15_Witness ==
  /\ Len(state.questions) = 1
  /\ state.currentQuestionIndex = 2
  /\ ~state.loading
  /\ state.score < MaxScore
  /\ lsItem.present

\* the snapshot stored under 'quizProgress' holds the position, the answers
\* and the score of s (a field the stored record lacks counts as empty)
SnapshotMatches(item, s) ==
  /\ item.present
  /\ item.text.valid
  /\ JSONparse(item.text).currentQuestionIndex = s.currentQuestionIndex
  /\ JSONparse(item.text).answers = s.answers
  /\ JSONparse(item.text).score = s.score

\* C16: with a working store, after every answer, advance or retreat that
\* changes the state the persisted snapshot holds the in-memory position,
\* answers and score, also in a session that began by restoring a snapshot
C16_SnapshotMirrorsState ==
  [][((\E answer \in AnswerInputs : AnswerQuestion(answer))
        \/ NextQuestion \/ PreviousQuestion)
       => SnapshotMatches(lsItem', state')]_vars

\* C17: whatever the storage does (works, rejects writes, throws on every
\* call), answer, advance, retreat and reset run to their end and change
\* the in-memory state as they do over a working store; the first three
\* leave the error as it is
C17_StorageFailuresDoNotBlock ==
  /\ (HasCurrentQuestion(state) /\ state.score < MaxScore)
       => ENABLED (/\ AnswerQuestion(FirstOption)
                   /\ state'.answers =
                        [state.answers EXCEPT ![CurrentQuestion(state).id] = FirstOption]
                   /\ state'.score =
                        IF IsCorrect(CurrentQuestion(state), FirstOption)
                          THEN state.score + 1 ELSE state.score
                   /\ state'.currentQuestionIndex = state.currentQuestionIndex
                   /\ state'.error = state.error)
  /\ state.currentQuestionIndex < Len(state.questions) - 1
       => ENABLED (/\ NextQuestion
                   /\ state' = [state EXCEPT !.currentQuestionIndex = @ + 1])
  /\ state.currentQuestionIndex > 0
       => ENABLED (/\ PreviousQuestion
                   /\ state' = [state EXCEPT !.currentQuestionIndex = @ - 1])
  /\ Len(inflight) < MaxInFlight
       => ENABLED (/\ ResetQuiz
                   /\ state'.currentQuestionIndex = 0
                   /\ state'.answers = EmptyAnswers
                   /\ state'.score = 0
                   /\ state'.error = NoError
                   /\ state'.retryCount = 0)

C17_Witness ==
  /\ lsMode = "throws"
  /\ isStorageAvailable
  /\ ~lsItem.present
  /\ state.currentQuestionIndex = 1
  /\ state.answers[1].def
  /\ state.answers[2].def

\* C18: when the availability probe of a visit fails, isStorageAvailable is
\* false; once false it stays false until the page is loaded again; and
\* while it is false every get is answered from the in-memory fallback and
\* no set or remove touches localStorage
C18_FallbackAfterFailedProbe ==
  [][/\ (PageReload /\ lsMode # "ok") => ~isStorageAvailable'
     /\ (~isStorageAvailable /\ isStorageAvailable') => PageReload
     /\ ~isStorageAvailable => lsItem' = lsItem
     /\ \A i \in 1..MaxInFlight : \A resp \in Responses :
          (LoadResolve(i, resp) /\ resp.ok /\ ~isStorageAvailable)
            => state' = LoadSucceeded(state, NewAttempt(0, FALSE, fallbackStorage),
                                      resp.questions, lsItem, lsMode)]_vars

\* the progress record a handler step hands to storage.setItem
WrittenProgress ==
  IF state'.currentQuestionIndex # state.currentQuestionIndex
    THEN NavigationProgress(state'.currentQuestionIndex)
    ELSE Progress(state'.currentQuestionIndex, state'.answers, state'.score)

\* C19: a write that localStorage rejects for quota puts the value into the
\* in-memory fallback, switches the adapter to the fallback and returns
\* true; a write that fails for another reason stores nothing and returns
\* false
C19_QuotaWriteFallsBack ==
  [][((AnswerQuestion(FirstOption) \/ NextQuestion \/ PreviousQuestion)
        /\ isStorageAvailable)
       => /\ lsMode = "quota"
               => /\ fallbackStorage' = ObjItem(WrittenProgress)
                  /\ ~isStorageAvailable'
                  /\ lsItem' = lsItem
                  /\ setItem(CurrentStore, lsMode, WrittenProgress).ret
          /\ lsMode = "throws"
               => /\ fallbackStorage' = fallbackStorage
                  /\ isStorageAvailable'
                  /\ lsItem' = lsItem
                  /\ ~setItem(CurrentStore, lsMode, WrittenProgress).ret]_vars

C19_Witness ==
  /\ lsMode = "quota"
  /\ ~isStorageAvailable
  /\ fallbackStorage.present
  /\ fallbackStorage.value.answers[1] = FirstOption
  /\ ~lsItem.present
  /\ state.answers[1] = FirstOption

\* C20: after a write that localStorage did not take, isStorageAvailable is
\* false and a get returns the value of that write, served by the in-memory
\* fallback; so does every later write
C20_FailedWriteSwitchesToFallback ==
  [][((AnswerQuestion(FirstOption) \/ NextQuestion \/ PreviousQuestion)
        /\ (lsMode # "ok" \/ ~isStorageAvailable))
       => /\ ~isStorageAvailable'
          /\ getItem(isStorageAvailable', fallbackStorage', lsItem', lsMode')
               = [found |-> TRUE, value |-> WrittenProgress]]_vars

\* C23: once a load has set the question list, nothing replaces or changes
\* it for the rest of the visit
C23_QuestionsSetOnce ==
  [][(state.questions # <<>> /\ state'.questions # state.questions)
       => PageReload]_vars

\* C24: within a visit the score never goes down from one state to the
\* next, except by a reset, which sets it to 0
C24_ScoreNeverDecreases ==
  [][state'.score >= state.score
       \/ (ResetQuiz /\ state'.score = 0)
       \/ PageReload]_vars

C24_Witness ==
  /\ state.questions = BankB
  /\ state.answers[1] = Arr(<<0, 1>>)
  /\ state.score = 2

\* C25: loading = true and error # none never hold together
C25_LoadingExcludesError ==
  ~(state.loading /\ state.error # NoError)

\* the retries that have failed when the error panel is shown: retryCount
\* counts the failed initial load and every failed retry
FailedRetries == state.retryCount - 1

\* C30: the error panel offers the retry action as long as fewer than three
\* retries have failed
C30_ThreeRetriesAllowed ==
  (ScreenError /\ state.retryCount >= 1 /\ FailedRetries < RetryCeiling) => canRetry

\* p is (position + 1) / length as a percentage rounded to a whole number
IsRoundedPercentage(p, position, length) ==
  /\ 2 * length * p - 200 * (position + 1) <= length
  /\ 200 * (position + 1) - 2 * length * p <= length

\* C26: the overall progress percentage is (position + 1) / length as a
\* rounded percentage when length > 0, and 0 when length is 0
C26_ProgressPercentage ==
  LET p == calculateProgress(state).currentProgressPercentage IN
  IF Len(state.questions) > 0
    THEN IsRoundedPercentage(p, state.currentQuestionIndex, Len(state.questions))
    ELSE p = 0

C26_Witness ==
  /\ Len(state.questions) = 3
  /\ state.currentQuestionIndex = 1
  /\ calculateProgress(state).currentProgressPercentage = 67

RECURSIVE SumOver(_, _)
SumOver(f, S) ==
  IF S = {} THEN 0
  ELSE LET x == CHOOSE x \in S : TRUE IN f[x] + SumOver(f, S \ {x})

\* C27: for every category label, total is the number of loaded questions
\* with the label, answered the number of those with a recorded answer,
\* correct the number of those whose recorded answer is correct, incorrect
\* is answered - correct, and answered <= total; over all categories the
\* correct counts add up to the score
C27_CategoryBreakdown ==
  LET stats == calculateCategoryStats(state) IN
  /\ \A category \in DOMAIN stats :
       /\ stats[category].total =
            Cardinality({k \in 1..Len(state.questions) :
                           state.questions[k].category = category})
       /\ stats[category].answered =
            Cardinality({k \in 1..Len(state.questions) :
                           /\ state.questions[k].category = category
                           /\ state.answers[state.questions[k].id] # NoAnswer})
       /\ stats[category].incorrect = stats[category].answered - stats[category].correct
       /\ stats[category].answered <= stats[category].total
  /\ SumOver([category \in DOMAIN stats |-> stats[category].correct], DOMAIN stats)
       = state.score

\* C28: every loaded question is in exactly one of the lists correct,
\* incorrect and unanswered; unanswered holds the questions without a
\* recorded answer; correct and incorrect together have as many entries as
\* there are recorded answers
C28_AnalysisPartitions ==
  LET analysis == getAnswerAnalysis(state)
      InList(list, id) == \E k \in 1..Len(list) : list[k] = id
  IN /\ \A j \in 1..Len(state.questions) :
          LET id == state.questions[j].id IN
          /\ InList(analysis.correctAnswers, id) \/ InList(analysis.incorrectAnswers, id)
               \/ InList(analysis.unanswered, id)
          /\ ~(InList(analysis.correctAnswers, id) /\ InList(analysis.incorrectAnswers, id))
          /\ ~(InList(analysis.correctAnswers, id) /\ InList(analysis.unanswered, id))
          /\ ~(InList(analysis.incorrectAnswers, id) /\ InList(analysis.unanswered, id))
          /\ InList(analysis.unanswered, id) <=> state.answers[id] = NoAnswer
     /\ Len(analysis.correctAnswers) + Len(analysis.incorrectAnswers)
          = calculateProgress(state).answeredQuestions

\* question 1 answered correctly, question 2 incorrectly, question 3 with
\* its correct subset, two advances made
ScenarioBeforeLastAdvance ==
  /\ state.questions = BankE
  /\ state.answers = [id \in Ids |->
                        IF id = 1 THEN Num(0) ELSE IF id = 2 THEN Num(0)
                        ELSE Arr(<<0, 1>>)]
  /\ state.currentQuestionIndex = 2

\* C22: in that run the third advance leads to position 3 with score 2,
\* and the counts of each category are those of the three answers
C22_EndToEnd ==
  ScenarioBeforeLastAdvance
    => ENABLED (/\ NextQuestion
                /\ state'.currentQuestionIndex = 3
                /\ state'.score = 2
                /\ calculateCategoryStats(state')["Speed limits"].answered = 2
                /\ calculateCategoryStats(state')["Speed limits"].correct = 2
                /\ calculateCategoryStats(state')["Speed limits"].incorrect = 0
                /\ calculateCategoryStats(state')["Traffic signs"].answered = 1
                /\ calculateCategoryStats(state')["Traffic signs"].correct = 0
                /\ calculateCategoryStats(state')["Traffic signs"].incorrect = 1)

\* the default is returned: nothing was found
ReturnsDefault(result) == result = [found |-> FALSE, value |-> EmptyObject]

\* C21: get returns the default when the stored text cannot be parsed, when
\* the read throws and when the key is absent, in localStorage as in the
\* fallback; a load that reads such a store restores nothing
C21_GetReturnsDefault ==
  /\ []((lsMode = "throws" \/ ~lsItem.present \/ lsItem = CorruptItem)
          => ReturnsDefault(getItem(TRUE, fallbackStorage, lsItem, lsMode)))
  /\ [](~fallbackStorage.present
          => ReturnsDefault(getItem(FALSE, fallbackStorage, lsItem, lsMode)))
  /\ [][\A i \in 1..MaxInFlight : \A resp \in OkResponses :
          (/\ LoadResolve(i, resp)
           /\ inflight[i].sa
           /\ (lsMode = "throws" \/ ~lsItem.present \/ lsItem = CorruptItem))
            => /\ state'.currentQuestionIndex = state.currentQuestionIndex
               /\ state'.answers = state.answers]_vars

C21_Witness ==
  /\ lsItem = CorruptItem
  /\ lsMode = "ok"
  /\ isStorageAvailable
  /\ ~state.loading
  /\ state.questions = BankA
  /\ state.currentQuestionIndex = 0
  /\ inflight = <<>>
  /\ queue = <<>>

\* what a stored item says the session is: nothing stored is the session
\* after a reset, a stored object is the position, answers and score it holds
\* (a navigation write over an empty store holds the position only)
AlreadyCommitted(item, s) ==
  IF ~item.present
    THEN s.answers = EmptyAnswers /\ s.score = 0 /\ s.currentQuestionIndex = 0
    ELSE LET snapshot == JSONparse(item.text) IN
         /\ snapshot.currentQuestionIndex = s.currentQuestionIndex
         /\ snapshot.full =>
              /\ \A id \in Ids : snapshot.answers[id].def =>
                                   s.answers[id] = snapshot.answers[id]
              /\ snapshot.score <= s.score

\* C29: every write or delete of the stored progress by answerQuestion,
\* nextQuestion, previousQuestion or resetQuiz is issued after the state
\* change it records has been committed: the state the handler leaves behind
\* already holds what the store is given, so the store is never ahead of it
C29_WriteAfterCommit ==
  [][lsItem' # lsItem => AlreadyCommitted(lsItem', state)]_vars

\* the entries of a list that lack the id, the text, the options or the
\* correct field
EntriesMissingAField(entries) ==
  {k \in 1..Len(entries) : entries[k].missing # {}}

ListOfEntries(outcome) ==
  /\ outcome.kind = "response"
  /\ outcome.ok
  /\ outcome.doc.data = "list"
  /\ ~outcome.doc.blank
  /\ Len(outcome.doc.entries) > 0
  /\ \A k \in 1..Len(outcome.doc.entries) : ~outcome.doc.entries[k].isNull

\* C31: an entry of the loaded list is counted as invalid exactly when its
\* id, text, options or correct field is missing, the reported count is the
\* number of such entries, and a list whose entries have all four fields
\* (whatever their values, an id of 0 included) is admitted
C31_InvalidExactlyWhenFieldMissing ==
  [][\A i \in 1..MaxInFlight : \A outcome \in FetchOutcomes :
       (LoadFetched(i, outcome) /\ ListOfEntries(outcome))
         => LET entries == outcome.doc.entries
                n == Cardinality(EntriesMissingAField(entries))
            IN  IF n = 0
                  THEN /\ state'.error = NoError
                       /\ state'.questions = [k \in 1..Len(entries) |-> entries[k].q]
                  ELSE state'.error.detail =
                         <<"invalid", "question", "format", "found", "in",
                           CountWord(n), "question(s)">>]_vars

\* the correct answer of a question names options of its list
CorrectReferencesOptions(q) ==
  /\ Len(q.options) > 0
  /\ \A k \in 1..Len(q.correct) : ArrIncludes(q.options, q.correct[k])

\* an answer that names an index outside the options of the question
OutsideOptions(q, answer) ==
  \E k \in 1..Len(answer.v) : answer.v[k] \notin 0..(Len(q.options) - 1)

\* no answer naming an index outside the options is scored as correct
OutsideOptionsNeverCorrect ==
  [][\A answer \in AdmitInputs :
       (AnswerQuestion(answer) /\ HasCurrentQuestion(state)
          /\ OutsideOptions(CurrentQuestion(state), answer))
         => state'.score = state.score]_vars

\* C32: every question a successful load put into the state has a non-empty
\* options list and a correct answer naming options of that list, and so an
\* answer with an index outside the options (such as -1) is never scored
\* as correct
C32_CorrectReferencesOptions ==
  /\ [](\A k \in 1..Len(state.questions) :
          CorrectReferencesOptions(state.questions[k]))
  /\ OutsideOptionsNeverCorrect

\* C33: every started load attempt resolves: whenever loading is true, the
\* state later has loading = false (questions ready or an error), the
\* network answering or the 15-second timer firing, whichever comes first
C33_LoadingEventuallyEnds ==
  state.loading ~> ~state.loading

\* the same for the fetch alone: while the timer is armed the wait ends
FetchEventuallySettles ==
  (\E i \in 1..Len(inflight) : inflight[i].timer)
    ~> (\A i \in 1..Len(inflight) : ~inflight[i].timer)

\* the part of the state that no answer or navigation handler touches
LoadKept ==
  /\ state'.questions = state.questions
  /\ state'.loading = state.loading
  /\ state'.error = state.error
  /\ state'.retryCount = state.retryCount

\* C34: answerQuestion, nextQuestion and previousQuestion leave the question
\* list, the loading flag, the error and the retry counter as they were;
\* nextQuestion and previousQuestion also leave the answers and the score,
\* and answerQuestion leaves the position
C34_HandlersKeepTheRest ==
  /\ [][(\E answer \in AnswerInputs : AnswerQuestion(answer))
          => /\ LoadKept
             /\ state'.currentQuestionIndex = state.currentQuestionIndex]_vars
  /\ [][(NextQuestion \/ PreviousQuestion)
          => /\ LoadKept
             /\ state'.answers = state.answers
             /\ state'.score = state.score]_vars

\* a retry is pending over a loaded list and an error, and the second
\* question has been reached and answered
C34_Witness ==
  /\ state.loading
  /\ state.error # NoError
  /\ state.retryCount = 1
  /\ state.questions = BankA
  /\ state.currentQuestionIndex = 1
  /\ state.answers[2].def
  /\ state.score = 1

\* C35: resetQuiz leaves the question list and the loading flag as they were
\* and starts no load attempt
C35_ResetStartsNoLoad ==
  [][ResetQuiz
       => /\ state'.questions = state.questions
          /\ state'.loading = state.loading
          /\ Len(inflight') = Len(inflight)]_vars

\* C36: also when load attempts overlap (retryLoading called before an
\* earlier attempt resolved), each attempt that fails raises retryCount by
\* exactly one, in whatever order the attempts resolve (no reset in between)
C36_OverlappingFailuresCount ==
  [][\A i \in 1..MaxInFlight : \A outcome \in AdmitOutcomes :
       (LoadFetched(i, outcome) /\ ~loadResult(outcome).ok)
         => state'.retryCount = state.retryCount + 1]_vars

\* C37: the attempt started last decides: after it has succeeded, the late
\* resolution of an earlier attempt sets no error and changes neither
\* retryCount nor the position nor the answers
C37_LateResolutionIgnored ==
  [][\A resp \in Responses :
       LoadResolve(1, resp)
         => /\ state'.error = state.error
            /\ state'.retryCount = state.retryCount
            /\ state'.currentQuestionIndex = state.currentQuestionIndex
            /\ state'.answers = state.answers]_vars

\* the same for an earlier attempt that succeeds late
LateSuccessIgnored ==
  [][\A resp \in Responses :
       (LoadResolve(1, resp) /\ resp.ok)
         => /\ state'.questions = state.questions
            /\ state'.currentQuestionIndex = state.currentQuestionIndex
            /\ state'.answers = state.answers]_vars

\* getItem after setItem(key, value) returns the value
GetAfterSet ==
  [][\A key \in Keys : \A value \in StoredValues :
       SetItem(key, value) => Get(key)' = [found |-> TRUE, value |-> value]]_vars

\* getItem after removeItem(key) returns the default
GetAfterRemove ==
  [][\A key \in Keys : RemoveItem(key) => ~Get(key)'.found]_vars

\* C38: the adapter is a key-value store in both modes: getItem after
\* setItem returns the value, getItem after removeItem returns the default,
\* and an operation on one key leaves what getItem returns for another key,
\* also when the operation is the one that switches to the in-memory Map
C38_KeyValueStore ==
  /\ GetAfterSet
  /\ GetAfterRemove
  /\ [][\A key \in Keys : \A other \in Keys \ {key} :
          (RemoveItem(key) \/ \E value \in StoredValues : SetItem(key, value))
            => Get(other)' = Get(other)]_vars

\* C39: the pending selection of the Question view belongs to the question
\* on display: when Next or Previous changes the question the selection is
\* empty for the new question, so options toggled on one question are not
\* submitted with the answer to another
C39_SelectionBelongsToQuestion ==
  [][((ClickNext \/ ClickPrevious)
        /\ state'.currentQuestionIndex # state.currentQuestionIndex)
       => selectedOptions' = <<>>]_vars

\* an answer stored for a question names options of that question only
SubmittedWithinOptions ==
  \A k \in 1..Len(state.questions) :
    LET q == state.questions[k] IN
      state.answers[q.id].def => ~OutsideOptions(q, state.answers[q.id])

====
